---- MODULE Spec2Model ----
(***************************************************************************)
(* Model of plugin/setup_venv.py: the one-shot provisioner of the plugin's *)
(* virtual environment.  The filesystem (environment directory,            *)
(* interpreter file, installed packages, manifest) is the persistent       *)
(* state; one run of the script is a sequence of steps over it.            *)
(***************************************************************************)
EXTENDS Integers, Sequences, FiniteSets, TLC

VARIABLES
    osName,        \* os.name of the host
    manifest,      \* requirements.txt: whether it exists, and its lines
    venvDir,       \* plugin/venv: "absent" or "present"
    interp,        \* the file at the Interpreter Path
    packages,      \* packages installed in the environment
    pc,            \* position of the script
    venv_python,   \* local of setup_venv (line 53)
    needs_setup,   \* local of setup_venv (line 56)
    calls,         \* external invocations made by the current run, in order
    stdout,        \* lines written to standard output by the current run
    stderr,        \* lines written to the error stream by the current run
    exitCode,      \* -1 while running, else the process exit code
    raisedAt,      \* step whose exception is propagating, or "none"
    exc,           \* class of that exception
    run,           \* number of runs started
    start,         \* filesystem as found at the start of the current run
    prev,          \* how the previous run ended and what followed it
    interfered     \* an external change happened since the current run ended

fs == <<venvDir, interp, packages>>
local == <<venv_python, needs_setup, calls, stdout, stderr, exitCode, raisedAt, exc>>
hist == <<run, start, prev, interfered>>
vars == <<osName, manifest, venvDir, interp, packages, pc, venv_python,
          needs_setup, calls, stdout, stderr, exitCode, raisedAt, exc,
          run, start, prev, interfered>>

\* ---- bounds -------------------------------------------------------------
MaxLines == 2
MaxRuns == 2

\* ---- the environment's vocabulary ---------------------------------------
PackageNames == {"boto3", "requests"}
BadLine == "???"
Lines == PackageNames \cup {BadLine}
NoManifest == [exists |-> FALSE, lines |-> <<>>]
Manifests ==
    {NoManifest} \cup
    {[exists |-> TRUE, lines |-> l] : l \in UNION {[1..n -> Lines] : n \in 1..MaxLines}}
InterpStates == {"absent", "ok", "crashing", "unexecutable"}
FsStates ==
    {<<"absent", "absent", {}>>} \cup
    {<<"present", i, p>> : i \in InterpStates, p \in SUBSET ({"pip"} \cup PackageNames)}

\* ---- paths --------------------------------------------------------------
get_plugin_dir == <<"plugin">>

get_venv_dir == Append(get_plugin_dir, "venv")

get_venv_python(os) ==
    IF os = "nt" THEN get_venv_dir \o <<"Scripts", "python.exe">>
    ELSE get_venv_dir \o <<"bin", "python">>

\* ---- filesystem predicates ----------------------------------------------
VenvDirExists == venvDir = "present"

VenvPythonExists == venvDir = "present" /\ interp # "absent"

RequirementsFileExists_Untested == TRUE

RequirementsFileExists == manifest.exists

Requirements == {manifest.lines[i] : i \in DOMAIN manifest.lines}

Line(text, arg) == <<text, arg>>

\* One external invocation: what was called, the exception it raised (or
\* "none") and the return code of the subprocess (0 for a library call).
Call(name, class, returncode) == [call |-> name, exc |-> class, rc |-> returncode]

\* ---- external tools -----------------------------------------------------
\* subprocess.run(..., check=True) raises CalledProcessError on a non-zero
\* return code.
RaisesCalledProcessError_Unchecked(returncode) == FALSE

RaisesCalledProcessError(returncode) == returncode # 0

\* The probe subprocess: <<exception class or "none", return code>>.  An
\* interpreter file that cannot be executed makes subprocess.run raise
\* OSError before any return code exists.
ProbeOutcome ==
    CASE interp = "unexecutable" -> <<"OSError", -1>>
      [] interp = "crashing" -> <<"none", 1>>
      [] interp = "ok" /\ "boto3" \in packages -> <<"none", 0>>
      [] OTHER -> <<"none", 1>>

\* shutil.rmtree(venv_dir): removes the tree, or raises having removed
\* part of its contents.
RmtreeOutcomes ==
    {<<"none", <<"absent", "absent", {}>>>>} \cup
    {<<"OSError", <<"present", i, p>>>> : i \in {interp, "absent"}, p \in SUBSET packages}

\* venv.create(venv_dir, with_pip=True) on an absent directory: a fresh
\* environment holding the interpreter and pip, or an exception leaving
\* whatever had been built.
VenvCreateOutcomes ==
    {<<"none", <<"present", "ok", {"pip"}>>>>,
     <<"OSError", <<"absent", "absent", {}>>>>,
     <<"OSError", <<"present", "absent", {}>>>>,
     <<"CalledProcessError", <<"present", "ok", {}>>>>}

\* `python -m pip install -r requirements.txt': <<return code, packages>>.
\* A file pip cannot open or parse is rejected before anything is installed; a
\* failing installation may have installed some of the requirements.
PipOutcomes ==
    IF ~manifest.exists \/ BadLine \in Requirements
    THEN {<<1, packages>>}
    ELSE {<<0, packages \cup Requirements>>} \cup
         {<<1, packages \cup S>> : S \in (SUBSET Requirements) \ {Requirements}}

\* ---- the script ---------------------------------------------------------
Raise(step, class) ==
    /\ raisedAt' = step
    /\ exc' = class
    /\ pc' = "except"

NoRaise == UNCHANGED <<raisedAt, exc>>

Init ==
    /\ osName \in {"posix", "nt"}
    /\ manifest \in Manifests
    /\ \E f \in FsStates :
         /\ venvDir = f[1]
         /\ interp = f[2]
         /\ packages = f[3]
    /\ pc = "idle"
    /\ venv_python = <<>>
    /\ needs_setup = FALSE
    /\ calls = <<>>
    /\ stdout = <<>>
    /\ stderr = <<>>
    /\ exitCode = -1
    /\ raisedAt = "none"
    /\ exc = "none"
    /\ run = 0
    /\ start = fs
    /\ prev = [exitCode |-> -1, raisedAt |-> "none", fs |-> fs, interfered |-> FALSE]
    /\ interfered = FALSE

\* The program is started (line 87); setup_venv is entered and runs lines
\* 52-56.
Start ==
    /\ pc \in {"idle", "exited"}
    /\ run < MaxRuns
    /\ run' = run + 1
    /\ prev' = [exitCode |-> exitCode, raisedAt |-> raisedAt, fs |-> fs,
                interfered |-> interfered]
    /\ interfered' = FALSE
    /\ start' = fs
    /\ venv_python' = get_venv_python(osName)
    /\ needs_setup' = FALSE
    /\ calls' = <<>>
    /\ stdout' = <<>>
    /\ stderr' = <<>>
    /\ exitCode' = -1
    /\ raisedAt' = "none"
    /\ exc' = "none"
    /\ pc' = "check"
    /\ UNCHANGED <<osName, manifest, venvDir, interp, packages>>

CheckVenv_FlagNotSet ==
    /\ pc = "check"
    /\ IF ~VenvDirExists
       THEN /\ needs_setup' = TRUE
            /\ stdout' = Append(stdout, Line("Virtual environment does not exist", <<>>))
            /\ pc' = "decide"
       ELSE IF ~VenvPythonExists
       THEN /\ UNCHANGED needs_setup
            /\ stdout' = Append(stdout, Line("Virtual environment Python executable not found", <<>>))
            /\ pc' = "decide"
       ELSE /\ UNCHANGED <<needs_setup, stdout>>
            /\ pc' = "probe"
    /\ UNCHANGED <<osName, manifest, venvDir, interp, packages, venv_python,
                   calls, stderr, exitCode, raisedAt, exc, hist>>

\* Lines 58-64: the two existence tests.
CheckVenv ==
    /\ pc = "check"
    /\ IF ~VenvDirExists
       THEN /\ needs_setup' = TRUE
            /\ stdout' = Append(stdout, Line("Virtual environment does not exist", <<>>))
            /\ pc' = "decide"
       ELSE IF ~VenvPythonExists
       THEN /\ needs_setup' = TRUE
            /\ stdout' = Append(stdout, Line("Virtual environment Python executable not found", <<>>))
            /\ pc' = "decide"
       ELSE /\ UNCHANGED <<needs_setup, stdout>>
            /\ pc' = "probe"
    /\ UNCHANGED <<osName, manifest, venvDir, interp, packages, venv_python,
                   calls, stderr, exitCode, raisedAt, exc, hist>>

\* Lines 66-73: the probe; only CalledProcessError is caught.
Probe ==
    /\ pc = "probe"
    /\ LET o == ProbeOutcome IN
       /\ calls' = Append(calls, Call("probe", o[1], o[2]))
       /\ IF o[1] # "none"
          THEN /\ Raise("probe", o[1])
               /\ UNCHANGED <<needs_setup, stdout>>
          ELSE IF RaisesCalledProcessError(o[2])
          THEN /\ needs_setup' = TRUE
               /\ stdout' = Append(stdout, Line("boto3 not found in virtual environment", <<>>))
               /\ pc' = "decide"
               /\ NoRaise
          ELSE /\ stdout' = Append(stdout, Line("Virtual environment ready with boto3 ", <<"version">>))
               /\ pc' = "decide"
               /\ UNCHANGED needs_setup
               /\ NoRaise
    /\ UNCHANGED <<osName, manifest, venvDir, interp, packages, venv_python,
                   stderr, exitCode, hist>>

Decide_AlwaysSetup ==
    /\ pc = "decide"
    /\ pc' = "purge"
    /\ UNCHANGED <<osName, manifest, venvDir, interp, packages, local, hist>>

\* Line 75.
Decide ==
    /\ pc = "decide"
    /\ pc' = IF needs_setup THEN "purge" ELSE "return"
    /\ UNCHANGED <<osName, manifest, venvDir, interp, packages, local, hist>>

Purge_NoDelete ==
    /\ pc = "purge"
    /\ pc' = "create"
    /\ NoRaise
    /\ UNCHANGED <<stdout, calls, venvDir, interp, packages>>
    /\ UNCHANGED <<osName, manifest, venv_python, needs_setup, stderr, exitCode, hist>>

\* Lines 76-79.
Purge ==
    /\ pc = "purge"
    /\ IF VenvDirExists
       THEN /\ stdout' = Append(stdout, Line("Removing existing virtual environment", <<>>))
            /\ \E o \in RmtreeOutcomes :
                 /\ calls' = Append(calls, Call("rmtree", o[1], 0))
                 /\ venvDir' = o[2][1]
                 /\ interp' = o[2][2]
                 /\ packages' = o[2][3]
                 /\ IF o[1] = "none"
                    THEN pc' = "create" /\ NoRaise
                    ELSE Raise("purge", o[1])
       ELSE /\ pc' = "create"
            /\ NoRaise
            /\ UNCHANGED <<stdout, calls, venvDir, interp, packages>>
    /\ UNCHANGED <<osName, manifest, venv_python, needs_setup, stderr, exitCode, hist>>

\* Lines 81 and 29-33.
CreateVenv ==
    /\ pc = "create"
    /\ stdout' = Append(stdout, Line("Creating virtual environment at ", get_venv_dir))
    /\ \E o \in VenvCreateOutcomes :
         /\ calls' = Append(calls, Call("venv.create", o[1], 0))
         /\ venvDir' = o[2][1]
         /\ interp' = o[2][2]
         /\ packages' = o[2][3]
         /\ IF o[1] = "none"
            THEN pc' = "install" /\ NoRaise
            ELSE Raise("create", o[1])
    /\ UNCHANGED <<osName, manifest, venv_python, needs_setup, stderr, exitCode, hist>>

\* Lines 82 and 35-48.
InstallRequirements ==
    /\ pc = "install"
    /\ IF ~RequirementsFileExists
       THEN /\ stdout' = Append(stdout, Line("Warning: not found ", <<"requirements.txt">>))
            /\ pc' = "complete"
            /\ NoRaise
            /\ UNCHANGED <<calls, packages>>
       ELSE /\ stdout' = Append(stdout, Line("Installing requirements from ", <<"requirements.txt">>))
            /\ \E o \in PipOutcomes :
                 /\ calls' = Append(calls, Call("pip", "none", o[1]))
                 /\ packages' = o[2]
                 /\ IF RaisesCalledProcessError(o[1])
                    THEN Raise("install", "CalledProcessError")
                    ELSE pc' = "complete" /\ NoRaise
    /\ UNCHANGED <<osName, manifest, venvDir, interp, venv_python, needs_setup,
                   stderr, exitCode, hist>>

\* Line 83.
Complete ==
    /\ pc = "complete"
    /\ stdout' = Append(stdout, Line("Virtual environment setup complete", <<>>))
    /\ pc' = "return"
    /\ UNCHANGED <<osName, manifest, venvDir, interp, packages, venv_python,
                   needs_setup, calls, stderr, exitCode, raisedAt, exc, hist>>

\* Lines 85, 89-90: setup_venv returns str(venv_python), the program prints
\* it and ends with exit code 0.
ReturnedPath_OnlyWhenReady == IF needs_setup THEN get_venv_dir ELSE venv_python

ReturnedPath == venv_python

Return ==
    /\ pc = "return"
    /\ stdout' = Append(stdout, Line("Python executable: ", ReturnedPath))
    /\ exitCode' = 0
    /\ pc' = "exited"
    /\ UNCHANGED <<osName, manifest, venvDir, interp, packages, venv_python,
                   needs_setup, calls, stderr, raisedAt, exc, hist>>

\* Lines 91-93.
Except ==
    /\ pc = "except"
    /\ stderr' = Append(stderr, Line("Error setting up virtual environment: ", <<exc>>))
    /\ exitCode' = 1
    /\ pc' = "exited"
    /\ UNCHANGED <<osName, manifest, venvDir, interp, packages, venv_python,
                   needs_setup, calls, stdout, raisedAt, exc, hist>>

\* Something other than the script changes the environment between two
\* runs.
Tamper ==
    /\ pc = "exited"
    /\ run < MaxRuns
    /\ ~interfered
    /\ \E f \in FsStates \ {fs} :
         /\ venvDir' = f[1]
         /\ interp' = f[2]
         /\ packages' = f[3]
    /\ interfered' = TRUE
    /\ UNCHANGED <<osName, manifest, pc, local, run, start, prev>>

Next ==
    \/ Start
    \/ CheckVenv
    \/ Probe
    \/ Decide
    \/ Purge
    \/ CreateVenv
    \/ InstallRequirements
    \/ Complete
    \/ Return
    \/ Except
    \/ Tamper

Spec == Init /\ [][Next]_vars

TypeOK ==
    /\ fs \in FsStates
    /\ manifest \in Manifests
    /\ exitCode \in {-1, 0, 1}
    /\ pc \in {"idle", "check", "probe", "decide", "purge", "create", "install",
               "complete", "return", "except", "exited"}

\* ---- vocabulary of the properties ---------------------------------------
Called(name) == \E i \in DOMAIN calls : calls[i].call = name

Printed(text) == \E i \in DOMAIN stdout : stdout[i][1] = text

Rank(name) ==
    CASE name = "probe" -> 1
      [] name = "rmtree" -> 2
      [] name = "venv.create" -> 3
      [] OTHER -> 4

\* The run has ended and nothing has touched the filesystem since.
JustExited == pc = "exited" /\ ~interfered

ReturnedNormally == JustExited /\ exitCode = 0

InterpreterPathExists == venvDir = "present" /\ interp # "absent"

Boto3Importable == venvDir = "present" /\ interp = "ok" /\ "boto3" \in packages

InstallerFailed == \E i \in DOMAIN calls : calls[i].call = "pip" /\ calls[i].rc # 0

ProbeNotSucceeded ==
    \E i \in DOMAIN calls : calls[i].call = "probe" /\ (calls[i].exc # "none" \/ calls[i].rc # 0)

C2_Idempotent ==
    (run >= 2 /\ prev.exitCode = 0 /\ ~prev.interfered) =>
        /\ ~needs_setup
        /\ ~ProbeNotSucceeded
        /\ ~Called("rmtree")
        /\ ~Called("venv.create")
        /\ ~Called("pip")
        /\ ~interfered => fs = prev.fs

\* ---- C3 -----------------------------------------------------------------
\* C3: once the installer subprocess has exited non-zero, the run never
\* prints the setup-complete message nor the "Python executable:" line, and
\* it ends with a message on the error stream and exit code 1.
C3_InstallerFailureAborts ==
    InstallerFailed =>
        /\ ~Printed("Virtual environment setup complete")
        /\ ~Printed("Python executable: ")
        /\ pc \in {"except", "exited"}
        /\ raisedAt = "install"
        /\ pc = "exited" =>
               /\ exitCode = 1
               /\ stderr = <<Line("Error setting up virtual environment: ", <<"CalledProcessError">>)>>

C3_Witness ==
    /\ InstallerFailed
    /\ pc = "exited"
    /\ exitCode = 1
    /\ Printed("Installing requirements from ")

\* ---- C4 -----------------------------------------------------------------
\* C4: every probe that does not succeed (package not importable, or
\* interpreter that cannot be executed) is absorbed: the run marks the
\* environment not ready and goes on to purge and rebuild, and never aborts
\* at the probe.
C4_ProbeFailureAbsorbed ==
    ProbeNotSucceeded =>
        /\ raisedAt # "probe"
        /\ needs_setup

\* ---- C5 -----------------------------------------------------------------
\* C5: a run that starts with the Environment Directory present and the
\* Interpreter Path absent never invokes the probe, decides to recreate,
\* deletes the directory first, creates the environment only after that
\* deletion (on an absent directory), and invokes the installer after the
\* creation exactly when the manifest exists.
C5_MissingInterpreterRecreates ==
    (pc # "idle" /\ start[1] = "present" /\ start[2] = "absent") =>
        /\ pc # "probe"
        /\ ~Called("probe")
        /\ pc # "check" => needs_setup
        /\ pc \notin {"check", "decide", "purge"} =>
               /\ Len(calls) >= 1
               /\ calls[1].call = "rmtree"
        /\ pc = "create" => venvDir = "absent"
        /\ pc \in {"create", "install", "complete", "return"} => calls[1].exc = "none"
        /\ pc \in {"install", "complete", "return"} \/ exitCode = 0 =>
               /\ Len(calls) >= 2
               /\ calls[2] = Call("venv.create", "none", 0)
        /\ pc \in {"complete", "return"} \/ exitCode = 0 =>
               IF manifest.exists
               THEN Len(calls) = 3 /\ calls[3] = Call("pip", "none", 0)
               ELSE Len(calls) = 2

C5_Witness ==
    /\ start[1] = "present"
    /\ start[2] = "absent"
    /\ pc = "exited"
    /\ exitCode = 0
    /\ Len(calls) = 3
    /\ calls[1].call = "rmtree"
    /\ calls[2].call = "venv.create"
    /\ calls[3].call = "pip"

\* ---- C6 -----------------------------------------------------------------
\* C6: with the manifest absent, a recreating run never invokes the
\* installer, never fails in the installing step, prints the warning there,
\* and, having created the environment, ends with exit code 0 and the
\* Interpreter Path in place.
C6_MissingManifestIsWarning ==
    (~manifest.exists /\ needs_setup) =>
        /\ ~Called("pip")
        /\ raisedAt \notin {"install"}
        /\ pc \in {"complete", "return", "exited"} /\ raisedAt = "none" =>
               /\ Printed("Warning: not found ")
               /\ ~Printed("Installing requirements from ")
        /\ (pc = "exited" /\ calls # <<>> /\ calls[Len(calls)] = Call("venv.create", "none", 0)) =>
               /\ exitCode = 0
               /\ raisedAt = "none"
               /\ ~interfered => InterpreterPathExists

C6_Witness ==
    /\ ~manifest.exists
    /\ needs_setup
    /\ ReturnedNormally
    /\ Printed("Warning: not found ")
    /\ Called("venv.create")
    /\ InterpreterPathExists

\* ---- C7 -----------------------------------------------------------------
\* C7: the only failures that escape setup_venv() are raised in the
\* Creating or the Installing step.
C7_OnlyCreateOrInstallEscape ==
    raisedAt \in {"none", "create", "install"}

\* ---- C8 -----------------------------------------------------------------
\* C8: a run that aborts in creation or installation leaves the half-built
\* Environment Directory on disk, and the next run (no external change in
\* between) always finds that environment not ready and creates only on a
\* purged directory.
C8_NoRollbackThenPurge ==
    /\ (JustExited /\ raisedAt = "install") =>
           (venvDir = "present" /\ interp = "ok" /\ "pip" \in packages)
    /\ (JustExited /\ raisedAt = "create") =>
           fs \in {o[2] : o \in {x \in VenvCreateOutcomes : x[1] # "none"}}
    /\ (run >= 2 /\ prev.raisedAt \in {"create", "install"} /\ ~prev.interfered) =>
           /\ start = prev.fs
           /\ pc \notin {"check", "probe"} => needs_setup
           /\ pc = "create" => venvDir = "absent"
           /\ (Called("venv.create") /\ start[1] = "present") => Called("rmtree")

\* ---- C9 -----------------------------------------------------------------
\* C9: the program exits with code 0 exactly when no exception was raised,
\* and then the last line of standard output carries the Interpreter Path
\* computed from the host's layout, the same whether or not the recreate
\* branch ran; otherwise it exits with code 1, has written one message to
\* the error stream and no interpreter-path line.
C9_ExitProtocol ==
    /\ pc = "exited" =>
           /\ exitCode \in {0, 1}
           /\ exitCode = 0 <=> raisedAt = "none"
           /\ exitCode = 0 =>
                  /\ stdout # <<>>
                  /\ stdout[Len(stdout)] = Line("Python executable: ", get_venv_python(osName))
                  /\ stderr = <<>>
           /\ exitCode = 1 =>
                  /\ Len(stderr) = 1
                  /\ stderr[1][1] = "Error setting up virtual environment: "
                  /\ ~Printed("Python executable: ")
    /\ pc \notin {"exited", "idle"} => (exitCode = -1 /\ ~Printed("Python executable: "))
    /\ raisedAt # "none" => pc \in {"except", "exited"}

C9_Witness ==
    /\ pc = "exited"
    /\ exitCode = 0
    /\ needs_setup
    /\ Called("venv.create")
    /\ stdout[Len(stdout)] = Line("Python executable: ", get_venv_python(osName))

\* ---- C10 ----------------------------------------------------------------
C10_Order ==
    /\ \A i, j \in DOMAIN calls : i < j => Rank(calls[i].call) < Rank(calls[j].call)
    /\ \A i \in DOMAIN calls : i < Len(calls) => calls[i].exc = "none"
    /\ ~needs_setup => \A i \in DOMAIN calls : calls[i].call = "probe"
    /\ Called("probe") => calls[1].call = "probe"
    /\ pc \in {"check", "probe"} => calls = <<>>
    /\ Called("rmtree") <=> (start[1] = "present" /\ needs_setup /\ pc \notin {"check", "probe", "decide", "purge", "idle"})
    /\ Called("pip") => (Called("venv.create") /\ manifest.exists)
    /\ pc = "create" => venvDir = "absent"
    /\ pc \in {"install", "complete"} => Called("venv.create")
    /\ (pc = "return" /\ needs_setup) => Called("venv.create")

C10_Step ==
    /\ <<pc, pc'>> \in
           {<<"idle", "check">>, <<"exited", "check">>, <<"exited", "exited">>,
            <<"check", "probe">>, <<"check", "decide">>,
            <<"probe", "decide">>, <<"probe", "except">>,
            <<"decide", "purge">>, <<"decide", "return">>,
            <<"purge", "create">>, <<"purge", "except">>,
            <<"create", "install">>, <<"create", "except">>,
            <<"install", "complete">>, <<"install", "except">>,
            <<"complete", "return">>, <<"return", "exited">>, <<"except", "exited">>}
    /\ (pc = "decide" /\ pc' = "return") => ~needs_setup
    /\ (pc = "decide" /\ pc' = "purge") => needs_setup
    /\ pc \notin {"check", "probe", "idle", "exited"} => needs_setup' = needs_setup

\* C10: every run follows Unknown -> {Ready | NotReady} -> [Purging ->
\* Creating -> Installing] -> Done; a Ready run deletes, creates and
\* installs nothing; in a NotReady run the deletion (only of an existing
\* directory) precedes the creation, which starts on an absent directory
\* and precedes the installation; the probe, the deletion, the creation
\* and the installer are each invoked at most once, the probe only before
\* the readiness decision.
C10_StepOrderNoRetries == []C10_Order /\ [][C10_Step]_vars

C10_Witness ==
    /\ pc = "exited"
    /\ exitCode = 0
    /\ Len(calls) = 4
    /\ calls[1].call = "probe"
    /\ calls[2].call = "rmtree"
    /\ calls[3].call = "venv.create"
    /\ calls[4].call = "pip"

====
